---- MODULE Spec2Model ----
(***************************************************************************)
(* Password-reset token lifecycle of src/controllers/user.ts:              *)
(* forgot (POST /forgot), getReset (GET /reset/:token) and postReset       *)
(* (POST /reset/:token), run by concurrent requests against one user       *)
(* directory.  Every asynchronous callback of a handler is one action; a   *)
(* request is suspended between the callbacks, where other requests run.   *)
(***************************************************************************)
EXTENDS Integers, Sequences, FiniteSets, TLC

(* ------------------------------ bounds --------------------------------- *)
\* requests started in one behaviour
MaxRequests == 3
\* clock advances in one behaviour
MaxTicks == 1
\* bytes drawn from the random source (16 in the code, scaled down)
TokenBytes == 2

\* concurrently open requests
Procs == {"p1", "p2"}
\* the clock's first value and its step, in ms
StartTime == 1000000
Tick == 3600000

(* --------------------------- program constants ------------------------- *)
\* user.ts:286  Date.now() + 3600000; // 1 hour
ResetWindow == 3600000
\* user.ts:207  len({ min: 4 })
MinPasswordLen == 4

(* ------------------------------ the directory -------------------------- *)
Users == {"alice@x.io"}
InitialPassword == "oldpw"
\* a field that is undefined on the record
NoToken == << >>
NoTime == -1
\* what findOne hands to its callback when no record matches
NullUser ==
  [email |-> "", password |-> "", passwordResetToken |-> NoToken,
   passwordResetExpires |-> NoTime, iss |-> 0]

\* User.findOne({ passwordResetToken: token }, cb): the records that match
FindByToken(dbv, token) ==
  {dbv[e] : e \in {x \in DOMAIN dbv : dbv[x].passwordResetToken = token}}

\* User.findOne({ email: email }, cb): the records that match
FindByEmail(dbv, email) ==
  {dbv[e] : e \in {x \in DOMAIN dbv : dbv[x].email = email}}

\* findOne's result: one matching record, or null when none matches
FindOneResults(matches) == IF matches = {} THEN {NullUser} ELSE matches

\* user.save(cb): the record of that user is replaced by the object saved
Save(dbv, u) == [dbv EXCEPT ![u.email] = u]

(* ------------------------------ tokens --------------------------------- *)
\* buf.toString("hex"): two hex digits per byte, high nibble first
RECURSIVE ToHex(_)
ToHex(buf) ==
  IF buf = << >> THEN << >>
  ELSE << Head(buf) \div 16, Head(buf) % 16 >> \o ToHex(Tail(buf))

\* the buffers crypto.randomBytes can hand over: one whose hex string is not
\* a numeral ("abab") and one whose hex string is a decimal numeral ("0007")
RandomBuffers ==
  { [i \in 1..TokenBytes |-> 171],
    [i \in 1..TokenBytes |-> IF i = TokenBytes THEN 7 ELSE 0] }

Tokens == {ToHex(b) : b \in RandomBuffers}

RECURSIVE DecimalValue(_)
DecimalValue(ds) ==
  IF ds = << >> THEN 0
  ELSE 10 * DecimalValue(SubSeq(ds, 1, Len(ds) - 1)) + ds[Len(ds)]

RECURSIVE Pow10(_)
Pow10(n) == IF n = 0 THEN 1 ELSE 10 * Pow10(n - 1)

AllDecimal(ds) == \A i \in 1..Len(ds) : ds[i] < 10

\* the position of the exponent mark of a numeral  d+ e d+  (0 when the
\* string has no such form)
ExponentMark(ds) ==
  LET marks == {i \in 1..Len(ds) : ds[i] = 14}
  IN IF /\ Cardinality(marks) = 1
        /\ \A i \in 1..Len(ds) : i \in marks \/ ds[i] < 10
        /\ \A i \in marks : 1 < i /\ i < Len(ds)
     THEN CHOOSE i \in marks : TRUE
     ELSE 0

\* `token < t` of JavaScript for a hex string and a number: the string is
\* converted with ToNumber; NaN compares false with everything
StringLessThanNumber(ds, t) ==
  IF ds # << >> /\ AllDecimal(ds) THEN DecimalValue(ds) < t
  ELSE IF ExponentMark(ds) # 0
       THEN LET m == ExponentMark(ds)
                mant == DecimalValue(SubSeq(ds, 1, m - 1))
                ex == DecimalValue(SubSeq(ds, m + 1, Len(ds)))
            IN IF mant = 0 THEN 0 < t
               \* 10^9 and more exceeds every value of the clock
               ELSE IF ex > 8 THEN FALSE
               ELSE t > 0 /\ mant <= (t - 1) \div Pow10(ex)
       ELSE FALSE

(* ------------------------------ requests ------------------------------- *)
\* req.body.email as posted
EmailInputs == {"alice@x.io", "Alice@X.IO", "nobody@x.io", "bogus"}
\* req.body.password / req.body.confirmPassword as posted
PasswordInputs ==
  { << "abcd", "abcd" >>, << "wxyz", "wxyz" >>, << "abc", "abc" >>,
    << "abcd", "wxyz" >> }

\* req.assert("email", ...).isEmail()
IsEmail(e) == e # "bogus"
\* req.sanitize("email").normalizeEmail({ gmail_remove_dots: false })
NormalizeEmail(e) == IF e = "Alice@X.IO" THEN "alice@x.io" ELSE e

BlankRequest ==
  [email |-> "", token |-> NoToken, password |-> "", confirmPassword |-> "",
   authenticated |-> FALSE]

\* res.status(status).send(body); `to` is the address echoed in the body
Send(status, body, to) ==
  [via |-> "send", status |-> status, body |-> body, to |-> to]
\* next(err)
NextErr(msg) == [via |-> "next", status |-> 0, body |-> msg, to |-> ""]

ValidationErrors == Send(400, "validation errors", "")
AlreadyLoggedIn == Send(401, "You are already logged in.", "")
TokenInvalid == Send(403, "Password reset token is invalid or has expired.", "")
TokenValid == Send(200, "Password reset token is valid.", "")
PasswordChanged == Send(200, "Success! Your password has been changed.", "")
WentWrong == Send(500, "Something went terribly wrong", "")
EmailSent(to) ==
  Send(200, "An e-mail has been sent to <to> with further instructions.", to)

\* what a request has done so far (history, read by the properties only)
BlankHistory ==
  [lookups |-> 0,       \* directory lookups answered
   saves |-> 0,         \* directory writes made
   mails |-> << >>,     \* sendMail calls answered
   infra |-> FALSE,     \* a collaborator reported an error
   stored |-> FALSE,    \* the lookup found a record
   fresh |-> FALSE,     \* ... whose passwordResetExpires was in the future
   matched |-> 0,       \* ... holding this issuance
   gen |-> 0,           \* issuances made when the lookup was answered
   held |-> FALSE,      \* some record held the request's token then
   spent |-> FALSE,     \* the request's token had been redeemed by then
   cleared |-> FALSE,   \* the write left the record without token and expiry
   saveErr |-> FALSE,   \* user.save reported an error
   wrote |-> NoToken,   \* the token the write of forgot stored
   issuedAt |-> NoTime] \* Date.now() of user.ts:286

VARIABLES
  db,         \* the user directory: email -> record
  now,        \* Date.now()
  ticks,      \* clock advances so far
  started,    \* requests started so far
  issues,     \* tokens stored by forgot so far (numbers the issuances)
  pc,         \* per request: the callback it waits for
  kind,       \* per request: the handler
  req,        \* per request: the request's fields
  user,       \* per request: the user object the callbacks share
  token,      \* per request: the token the waterfall passes on
  out,        \* per request: the res.send / next calls made, in order
  threw,      \* per request: a callback ended in an exception
  doneCalled, \* per request: the running task's callback was called
  session,    \* per request: the user req.logIn logged in ("" when none)
  hist,       \* per request: history
  redeemed    \* history: the tokens redeemed and not issued again since

vars ==
  << db, now, ticks, started, issues, pc, kind, req, user, token, out, threw,
     doneCalled, session, hist, redeemed >>

shared == << db, now, ticks, issues, redeemed >>

Init ==
  /\ db = [e \in Users |->
             [email |-> e, password |-> InitialPassword,
              passwordResetToken |-> NoToken, passwordResetExpires |-> NoTime,
              iss |-> 0]]
  /\ now = StartTime
  /\ ticks = 0
  /\ started = 0
  /\ issues = 0
  /\ pc = [p \in Procs |-> "idle"]
  /\ kind = [p \in Procs |-> "none"]
  /\ req = [p \in Procs |-> BlankRequest]
  /\ user = [p \in Procs |-> NullUser]
  /\ token = [p \in Procs |-> NoToken]
  /\ out = [p \in Procs |-> << >>]
  /\ threw = [p \in Procs |-> FALSE]
  /\ doneCalled = [p \in Procs |-> FALSE]
  /\ session = [p \in Procs |-> ""]
  /\ hist = [p \in Procs |-> BlankHistory]
  /\ redeemed = {}

\* a request slot is free before its first request and after a request ended
Free(p) == pc[p] \in {"idle", "done"} /\ started < MaxRequests

\* a new request arrives at slot p
Arrive(p, k, r, first, responses) ==
  /\ started' = started + 1
  /\ kind' = [kind EXCEPT ![p] = k]
  /\ req' = [req EXCEPT ![p] = r]
  /\ pc' = [pc EXCEPT ![p] = first]
  /\ out' = [out EXCEPT ![p] = responses]
  /\ user' = [user EXCEPT ![p] = NullUser]
  /\ token' = [token EXCEPT ![p] = NoToken]
  /\ threw' = [threw EXCEPT ![p] = FALSE]
  /\ doneCalled' = [doneCalled EXCEPT ![p] = FALSE]
  /\ session' = [session EXCEPT ![p] = ""]
  /\ hist' = [hist EXCEPT ![p] = BlankHistory]
  /\ UNCHANGED shared

\* the clock moves on
Advance ==
  /\ ticks < MaxTicks
  /\ ticks' = ticks + 1
  /\ now' = now + Tick
  /\ UNCHANGED << db, started, issues, pc, kind, req, user, token, out, threw,
                  doneCalled, session, hist, redeemed >>

\* the request's step: it moves to `next`, having made the calls `responses`
Step(p, next, responses, exception) ==
  /\ pc' = [pc EXCEPT ![p] = next]
  /\ out' = [out EXCEPT ![p] = @ \o responses]
  /\ threw' = [threw EXCEPT ![p] = @ \/ exception]
  /\ UNCHANGED << now, ticks, started, kind, req >>

\* the history of a directory lookup that handed `u` to its callback
Looked(p, err, u) ==
  [hist[p] EXCEPT
     !.lookups = @ + 1, !.infra = @ \/ err, !.stored = u # NullUser,
     !.fresh = u.passwordResetExpires > now, !.matched = u.iss,
     !.gen = issues,
     !.held = \E e \in DOMAIN db : db[e].passwordResetToken = req[p].token,
     !.spent = req[p].token \in redeemed]

(* ------------------------- GET /reset/:token --------------------------- *)
\* variant of GetResetRejects: the test for a missing record is left out
GetResetRejectsNoNullCheck(u, t) ==
  StringLessThanNumber(u.passwordResetToken, t)

\* user.ts:194  if (!user || user.passwordResetToken < Date.now())
GetResetRejects(u, t) ==
  u = NullUser \/ StringLessThanNumber(u.passwordResetToken, t)

\* user.ts:188-192  the request arrives; findOne is called
GetReset(p) ==
  /\ Free(p)
  /\ \E t \in Tokens, a \in BOOLEAN :
       Arrive(p, "getReset",
              [BlankRequest EXCEPT !.token = t, !.authenticated = a],
              IF a THEN "done" ELSE "g_find",
              IF a THEN << AlreadyLoggedIn >> ELSE << >>)

\* variant of GetResetFound: a record whose token is rejected is swept, its
\* token and expiry cleared and saved
GetResetFoundSweeping(p) ==
  /\ pc[p] = "g_find"
  /\ \E err \in BOOLEAN :
     \E u \in IF err THEN {NullUser}
              ELSE FindOneResults(FindByToken(db, req[p].token)) :
       /\ Step(p, "done",
               << IF err THEN NextErr("db error")
                  ELSE IF GetResetRejects(u, now) THEN TokenInvalid
                  ELSE TokenValid >>,
               FALSE)
       /\ hist' = [hist EXCEPT ![p] = Looked(p, err, u)]
       /\ db' = IF ~err /\ u # NullUser /\ GetResetRejects(u, now)
                THEN Save(db, [u EXCEPT !.passwordResetToken = NoToken,
                                        !.passwordResetExpires = NoTime,
                                        !.iss = 0])
                ELSE db
  /\ UNCHANGED << issues, user, token, doneCalled, session, redeemed >>

\* user.ts:192-199  findOne's callback
GetResetFound(p) ==
  /\ pc[p] = "g_find"
  /\ \E err \in BOOLEAN :
     \E u \in IF err THEN {NullUser}
              ELSE FindOneResults(FindByToken(db, req[p].token)) :
       /\ Step(p, "done",
               << IF err THEN NextErr("db error")
                  ELSE IF GetResetRejects(u, now) THEN TokenInvalid
                  ELSE TokenValid >>,
               FALSE)
       /\ hist' = [hist EXCEPT ![p] = Looked(p, err, u)]
  /\ UNCHANGED << db, issues, user, token, doneCalled, session, redeemed >>

(* ----------------------------- POST /forgot ---------------------------- *)
\* variant of SetRandomTokenMatches: the query does not select by address
SetRandomTokenMatchesAny(dbv, email) == {dbv[e] : e \in DOMAIN dbv}

\* user.ts:282  User.findOne({ email: req.body.email }, ...)
SetRandomTokenMatches(dbv, email) == FindByEmail(dbv, email)

\* variant of SetRandomTokenFields: the expiry is not set
SetRandomTokenFieldsNoExpiry(u, tok, t) ==
  [u EXCEPT !.passwordResetToken = tok]

\* variant of SetRandomTokenFields: the window is counted in seconds
SetRandomTokenFieldsSeconds(u, tok, t) ==
  [u EXCEPT !.passwordResetToken = tok, !.passwordResetExpires = t + 3600]

\* user.ts:285-286  the token and its expiry are put on the user object
SetRandomTokenFields(u, tok, t) ==
  [u EXCEPT !.passwordResetToken = tok, !.passwordResetExpires = t + ResetWindow]

\* variant of ForgotFinal: "User not found" is passed on like any error
ForgotFinalNoMerge(err, email) ==
  IF err # "" THEN << NextErr(err) >> ELSE << WentWrong >>

\* user.ts:314-322  the waterfall's final callback ("" is no error)
ForgotFinal(err, email) ==
  IF err # ""
  THEN IF err = "User not found" THEN << EmailSent(email) >>
       ELSE << NextErr(err) >>
  ELSE << WentWrong >>

\* user.ts:264-276  the request arrives; randomBytes is called
Forgot(p) ==
  /\ Free(p)
  /\ \E e \in EmailInputs :
       Arrive(p, "forgot", [BlankRequest EXCEPT !.email = NormalizeEmail(e)],
              IF IsEmail(e) THEN "f_rand" ELSE "done",
              IF IsEmail(e) THEN << >> ELSE << ValidationErrors >>)

\* user.ts:276-282  randomBytes' callback: on an error buf is undefined and
\* buf.toString throws before done is called
CreateRandomToken(p) ==
  /\ pc[p] = "f_rand"
  /\ \E err \in BOOLEAN :
     \E buf \in IF err THEN {<< >>} ELSE RandomBuffers :
       /\ Step(p, IF err THEN "done" ELSE "f_find", << >>, err)
       /\ token' = [token EXCEPT ![p] = ToHex(buf)]
       /\ hist' = [hist EXCEPT ![p].infra = @ \/ err]
  /\ UNCHANGED << db, issues, user, doneCalled, session, redeemed >>

\* user.ts:282-287  findOne's callback: with no record, done(new Error) runs
\* the final callback and the assignment to null.passwordResetToken throws
SetRandomToken(p) ==
  /\ pc[p] = "f_find"
  /\ \E err \in BOOLEAN :
     \E u \in IF err THEN {NullUser}
              ELSE FindOneResults(SetRandomTokenMatches(db, req[p].email)) :
       /\ Step(p, IF err \/ u = NullUser THEN "done" ELSE "f_save",
               IF err THEN ForgotFinal("db error", req[p].email)
               ELSE IF u = NullUser
                    THEN ForgotFinal("User not found", req[p].email)
                    ELSE << >>,
               ~err /\ u = NullUser)
       /\ user' = [user EXCEPT ![p] =
                     IF err \/ u = NullUser THEN NullUser
                     ELSE SetRandomTokenFields(u, token[p], now)]
       /\ hist' = [hist EXCEPT ![p] =
                     [Looked(p, err, u) EXCEPT !.issuedAt =
                        IF err \/ u = NullUser THEN NoTime ELSE now]]
  /\ UNCHANGED << db, issues, token, doneCalled, session, redeemed >>

\* variant of SetRandomTokenSaved: the error of save is not passed to done
SetRandomTokenSavedIgnoringError(p) ==
  /\ pc[p] = "f_save"
  /\ \E err \in BOOLEAN :
       LET rec == [user[p] EXCEPT !.iss = issues + 1] IN
       /\ Step(p, "f_mail", << >>, FALSE)
       /\ db' = IF err THEN db ELSE Save(db, rec)
       /\ issues' = IF err THEN issues ELSE issues + 1
       /\ redeemed' = IF err THEN redeemed
                      ELSE redeemed \ {rec.passwordResetToken}
       /\ hist' = [hist EXCEPT ![p] =
                     IF err THEN [@ EXCEPT !.infra = TRUE, !.saveErr = TRUE]
                     ELSE [@ EXCEPT !.saves = @ + 1,
                                    !.wrote = db'[rec.email].passwordResetToken]]
  /\ UNCHANGED << user, token, doneCalled, session >>

\* user.ts:287-293  save's callback: done(err, token, user)
SetRandomTokenSaved(p) ==
  /\ pc[p] = "f_save"
  /\ \E err \in BOOLEAN :
       LET rec == [user[p] EXCEPT !.iss = issues + 1] IN
       /\ Step(p, IF err THEN "done" ELSE "f_mail",
               IF err THEN ForgotFinal("db error", req[p].email) ELSE << >>,
               FALSE)
       /\ db' = IF err THEN db ELSE Save(db, rec)
       /\ issues' = IF err THEN issues ELSE issues + 1
       /\ redeemed' = IF err THEN redeemed
                      ELSE redeemed \ {rec.passwordResetToken}
       /\ hist' = [hist EXCEPT ![p] =
                     IF err THEN [@ EXCEPT !.infra = TRUE, !.saveErr = TRUE]
                     ELSE [@ EXCEPT !.saves = @ + 1,
                                    !.wrote = db'[rec.email].passwordResetToken]]
  /\ UNCHANGED << user, token, doneCalled, session >>

\* user.ts:309-312  sendMail's callback: the acknowledgment, then done(err)
SendForgotPasswordEmail(p) ==
  /\ pc[p] = "f_mail"
  /\ \E err \in BOOLEAN :
       /\ Step(p, "done",
               << EmailSent(user[p].email) >>
                 \o ForgotFinal(IF err THEN "mail error" ELSE "", req[p].email),
               FALSE)
       /\ hist' = [hist EXCEPT ![p] =
                     [@ EXCEPT !.infra = @ \/ err,
                               !.mails = Append(@, [to |-> user[p].email,
                                                    token |-> token[p],
                                                    delivered |-> ~err])]]
  /\ UNCHANGED << db, issues, user, token, doneCalled, session, redeemed >>

(* -------------------------- POST /reset/:token ------------------------- *)
\* variant of PasswordValid: the confirmation is not compared
PasswordValidNoConfirm(pw, confirm) == Len(pw) >= MinPasswordLen

\* user.ts:207-210  the password is long enough and confirmed
PasswordValid(pw, confirm) == Len(pw) >= MinPasswordLen /\ confirm = pw

\* user.ts:221  if (!user || user.passwordResetToken < Date.now())
ResetPasswordRejects(u, t) ==
  u = NullUser \/ StringLessThanNumber(u.passwordResetToken, t)

\* user.ts:224-226  the new password is set, token and expiry are cleared
ResetPasswordFields(u, pw) ==
  [u EXCEPT !.password = pw, !.passwordResetToken = NoToken,
            !.passwordResetExpires = NoTime]

\* user.ts:254-257  the waterfall's final callback ("" is no error)
PostResetFinal(err) ==
  IF err # "" THEN << NextErr(err) >> ELSE << WentWrong >>

\* user.ts:206-219  the request arrives; findOne is called
PostReset(p) ==
  /\ Free(p)
  /\ \E t \in Tokens, pws \in PasswordInputs :
       Arrive(p, "postReset",
              [BlankRequest EXCEPT !.token = t, !.password = pws[1],
                                   !.confirmPassword = pws[2]],
              IF PasswordValid(pws[1], pws[2]) THEN "r_find" ELSE "done",
              IF PasswordValid(pws[1], pws[2]) THEN << >>
              ELSE << ValidationErrors >>)

\* user.ts:219-227  findOne's callback.  On a lookup error next(err) is
\* called and done(undefined, user) starts the mail task, whose user.email
\* throws.  When the token is rejected done(new Error) runs the final
\* callback and the handler goes on: with no record the assignment to
\* null.password throws, with a record the fields are set and save is called.
ResetPassword(p) ==
  /\ pc[p] = "r_find"
  /\ \E err \in BOOLEAN :
     \E u \in IF err THEN {NullUser}
              ELSE FindOneResults(FindByToken(db, req[p].token)) :
       LET rejected == ~err /\ ResetPasswordRejects(u, now) IN
       /\ Step(p, IF err \/ u = NullUser THEN "done" ELSE "r_save",
               IF err THEN << NextErr("db error") >>
               ELSE IF rejected THEN PostResetFinal("User not found")
               ELSE << >>,
               err \/ u = NullUser)
       /\ doneCalled' = [doneCalled EXCEPT ![p] = err \/ rejected]
       /\ user' = [user EXCEPT ![p] =
                     IF err \/ u = NullUser THEN NullUser
                     ELSE ResetPasswordFields(u, req[p].password)]
       /\ hist' = [hist EXCEPT ![p] = Looked(p, err, u)]
  /\ UNCHANGED << db, issues, token, session, redeemed >>

\* variant of ResetPasswordSaved: req.logIn is called before the error of
\* save is looked at
ResetPasswordSavedLoginFirst(p) ==
  /\ pc[p] = "r_save"
  /\ \E failure \in {"none", "save", "login"} :
       LET rec == [user[p] EXCEPT !.iss = 0] IN
       /\ Step(p,
               IF failure = "none" /\ ~doneCalled[p] THEN "r_mail" ELSE "done",
               IF failure = "save" THEN << NextErr("db error") >>
               ELSE IF doneCalled[p] THEN << >>
               ELSE IF failure = "login" THEN PostResetFinal("login error")
               ELSE << >>,
               failure # "save" /\ doneCalled[p])
       /\ db' = IF failure = "save" THEN db ELSE Save(db, rec)
       /\ redeemed' = IF failure = "save" THEN redeemed
                      ELSE redeemed \cup {req[p].token}
       /\ session' = [session EXCEPT ![p] =
                        IF failure # "login" THEN user[p].email ELSE @]
       /\ doneCalled' = [doneCalled EXCEPT ![p] = @ \/ failure # "save"]
       /\ hist' = [hist EXCEPT ![p] =
                     IF failure = "save"
                     THEN [@ EXCEPT !.infra = TRUE, !.saveErr = TRUE]
                     ELSE [@ EXCEPT !.saves = @ + 1,
                                    !.cleared =
                                      /\ db'[rec.email].passwordResetToken = NoToken
                                      /\ db'[rec.email].passwordResetExpires = NoTime,
                                    !.infra = @ \/ failure = "login"]]
  /\ UNCHANGED << issues, user, token >>

\* user.ts:227-232  save's callback: next(err) on an error; else req.logIn
\* and, in its callback, done(err, user), which throws when done has been
\* called before (async 2.x: "Callback was already called.")
ResetPasswordSaved(p) ==
  /\ pc[p] = "r_save"
  /\ \E failure \in {"none", "save", "login"} :
       LET rec == [user[p] EXCEPT !.iss = 0] IN
       /\ Step(p,
               IF failure = "none" /\ ~doneCalled[p] THEN "r_mail" ELSE "done",
               IF failure = "save" THEN << NextErr("db error") >>
               ELSE IF doneCalled[p] THEN << >>
               ELSE IF failure = "login" THEN PostResetFinal("login error")
               ELSE << >>,
               failure # "save" /\ doneCalled[p])
       /\ db' = IF failure = "save" THEN db ELSE Save(db, rec)
       /\ redeemed' = IF failure = "save" THEN redeemed
                      ELSE redeemed \cup {req[p].token}
       /\ session' = [session EXCEPT ![p] =
                        IF failure = "none" THEN user[p].email ELSE @]
       /\ doneCalled' = [doneCalled EXCEPT ![p] = @ \/ failure # "save"]
       /\ hist' = [hist EXCEPT ![p] =
                     IF failure = "save"
                     THEN [@ EXCEPT !.infra = TRUE, !.saveErr = TRUE]
                     ELSE [@ EXCEPT !.saves = @ + 1,
                                    !.cleared =
                                      /\ db'[rec.email].passwordResetToken = NoToken
                                      /\ db'[rec.email].passwordResetExpires = NoTime,
                                    !.infra = @ \/ failure = "login"]]
  /\ UNCHANGED << issues, user, token >>

\* user.ts:249-252  sendMail's callback: the success response, then done(err)
SendResetPasswordEmail(p) ==
  /\ pc[p] = "r_mail"
  /\ \E err \in BOOLEAN :
       /\ Step(p, "done",
               << PasswordChanged >>
                 \o PostResetFinal(IF err THEN "mail error" ELSE ""),
               FALSE)
       /\ hist' = [hist EXCEPT ![p] =
                     [@ EXCEPT !.infra = @ \/ err,
                               !.mails = Append(@, [to |-> user[p].email,
                                                    token |-> NoToken,
                                                    delivered |-> ~err])]]
  /\ UNCHANGED << db, issues, user, token, doneCalled, session, redeemed >>

(* ---------------------------- specification ---------------------------- *)
Next ==
  \/ Advance
  \/ \E p \in Procs : GetReset(p)
  \/ \E p \in Procs : GetResetFound(p)
  \/ \E p \in Procs : Forgot(p)
  \/ \E p \in Procs : CreateRandomToken(p)
  \/ \E p \in Procs : SetRandomToken(p)
  \/ \E p \in Procs : SetRandomTokenSaved(p)
  \/ \E p \in Procs : SendForgotPasswordEmail(p)
  \/ \E p \in Procs : PostReset(p)
  \/ \E p \in Procs : ResetPassword(p)
  \/ \E p \in Procs : ResetPasswordSaved(p)
  \/ \E p \in Procs : SendResetPasswordEmail(p)

Spec == Init /\ [][Next]_vars

(* ------------------------------ properties ----------------------------- *)
\* the first res.send / next call of a request is what its caller receives
Answered(p, r) == out[p] # << >> /\ Head(out[p]) = r
Finished(p, k) == kind[p] = k /\ pc[p] = "done"
Unauthenticated(p) == ~req[p].authenticated
\* a redemption succeeded: the password was written, a session was
\* established and the caller was told so
RedeemSucceeded(p) ==
  /\ kind[p] = "postReset"
  /\ hist[p].saves = 1
  /\ session[p] # ""
  /\ Answered(p, PasswordChanged)

\* C1: redeeming a token succeeds once: of two postReset requests whose
\* lookups both matched the same pending, unexpired issuance of one token,
\* not both succeed (change the password and establish a session).
C1_RedeemSucceedsOnce ==
  \A p, q \in Procs :
    ( /\ p # q
      /\ req[p].token = req[q].token
      /\ hist[p].matched # 0
      /\ hist[p].matched = hist[q].matched
      /\ hist[p].fresh /\ hist[q].fresh )
    => ~(RedeemSucceeded(p) /\ RedeemSucceeded(q))

\* C2: getReset by an unauthenticated caller with a token that matches a
\* stored record answers "token valid" only if that record's
\* passwordResetExpires is strictly later than the time of the check; at or
\* after issuance + 1 hour it answers "invalid or expired".
C2_VerifyRejectsExpired ==
  \A p \in Procs :
    ( /\ Finished(p, "getReset")
      /\ Unauthenticated(p)
      /\ ~hist[p].infra
      /\ hist[p].stored )
    => /\ Answered(p, TokenValid) => hist[p].fresh
       /\ ~hist[p].fresh => Answered(p, TokenInvalid)

\* C3: postReset with valid password fields and a token that matches a
\* record whose passwordResetExpires is not strictly in the future writes
\* nothing, establishes no session and answers "invalid or expired".
C3_ExpiredTokenNotRedeemed ==
  \A p \in Procs :
    ( /\ kind[p] = "postReset"
      /\ hist[p].lookups = 1
      /\ hist[p].stored
      /\ ~hist[p].fresh
      /\ ~hist[p].infra )
    => /\ hist[p].saves = 0
       /\ session[p] = ""
       /\ pc[p] = "done" => Answered(p, TokenInvalid)

\* C4: a successful postReset leaves the record without token and expiry,
\* and a postReset whose lookup comes after a redemption of its token (the
\* token not issued again) ends without a write, answering "invalid or
\* expired".
C4_RedeemedTokenStaysInvalid ==
  \A p \in Procs :
    kind[p] = "postReset" =>
      /\ hist[p].saves = 1 => hist[p].cleared
      /\ ( /\ hist[p].lookups = 1
           /\ hist[p].spent
           /\ ~hist[p].held
           /\ ~hist[p].infra )
         => /\ pc[p] = "done"
            /\ hist[p].saves = 0
            /\ Answered(p, TokenInvalid)

\* C5: every stored record has passwordResetToken and passwordResetExpires
\* both set or both absent.
C5_TokenAndExpiryTogether ==
  \A e \in DOMAIN db :
    (db[e].passwordResetToken = NoToken) <=> (db[e].passwordResetExpires = NoTime)

\* a record holds a token after a redemption has been written
C5_Witness ==
  /\ \E e \in DOMAIN db :
       db[e].passwordResetToken # NoToken /\ db[e].passwordResetExpires # NoTime
  /\ \E p \in Procs : kind[p] = "postReset" /\ hist[p].saves = 1

\* a forgot request that passed validation and met no collaborator error
ForgotAnswered(p) ==
  Finished(p, "forgot") /\ hist[p].lookups = 1 /\ ~hist[p].infra

\* C6: two forgot requests with valid addresses, one in the directory and
\* one not, that meet no collaborator error receive the same status and the
\* same text, each echoing its own address.
C6_UniformAcknowledgment ==
  \A p, q \in Procs :
    ( /\ ForgotAnswered(p) /\ req[p].email \in Users
      /\ ForgotAnswered(q) /\ req[q].email \notin Users )
    => /\ out[p] # << >> /\ out[q] # << >>
       /\ Head(out[p]).via = "send" /\ Head(out[q]).via = "send"
       /\ Head(out[p]).status = Head(out[q]).status
       /\ Head(out[p]).body = Head(out[q]).body
       /\ Head(out[p]).to = req[p].email
       /\ Head(out[q]).to = req[q].email

\* both requests have been answered
C6_Witness ==
  \E p, q \in Procs :
    /\ ForgotAnswered(p) /\ req[p].email \in Users
    /\ ForgotAnswered(q) /\ req[q].email \notin Users
    /\ Answered(p, EmailSent(req[p].email))
    /\ Answered(q, EmailSent(req[q].email))

\* C7: a forgot request for a valid address that no record has makes no
\* directory write (so stores no token) and no sendMail call.
C7_UnknownAddressNoEffect ==
  \A p \in Procs :
    (kind[p] = "forgot" /\ req[p].email \notin Users)
    => hist[p].saves = 0 /\ hist[p].mails = << >>

\* such a request ran its lookup and was answered
C7_Witness ==
  \E p \in Procs :
    /\ ForgotAnswered(p)
    /\ req[p].email \notin Users
    /\ ~hist[p].stored
    /\ \E q \in Procs : kind[q] = "forgot" /\ hist[q].saves = 1

\* C8: the write of forgot leaves the record of the address with
\* passwordResetToken equal to the generated token and passwordResetExpires
\* equal to the issuance time (Date.now() of setRandomToken) plus 3600000.
C8_IssuedTokenAndExpiry ==
  [][ \A p \in Procs :
        (pc[p] = "f_save" /\ pc'[p] = "f_mail")
        => /\ db'[req[p].email].passwordResetToken = token[p]
           /\ token[p] \in Tokens
           /\ db'[req[p].email].passwordResetExpires
                = hist[p].issuedAt + ResetWindow ]_vars

\* a token has been stored, the clock having moved on since its issuance
C8_Witness ==
  \E p \in Procs :
    /\ kind[p] = "forgot"
    /\ pc[p] = "f_mail"
    /\ hist[p].issuedAt < now
    /\ db[req[p].email].passwordResetToken = token[p]
    /\ db[req[p].email].passwordResetExpires = hist[p].issuedAt + ResetWindow

\* C9: once a second issuance has been stored for the user, a request with
\* the token of the latest issuance (unexpired) is accepted by getReset and
\* by postReset, and getReset rejects every token that is not the latest
\* issuance's.  (One user: issuances are numbered by `issues`.)
C9_NewTokenSupersedesOld ==
  \A p \in Procs :
    (hist[p].lookups = 1 /\ hist[p].gen >= 2 /\ ~hist[p].infra /\ pc[p] = "done")
    => /\ (kind[p] = "getReset" /\ hist[p].matched = hist[p].gen /\ hist[p].fresh)
          => Answered(p, TokenValid)
       /\ (kind[p] = "postReset" /\ hist[p].matched = hist[p].gen /\ hist[p].fresh)
          => Answered(p, PasswordChanged)
       /\ (kind[p] = "getReset" /\ hist[p].matched # hist[p].gen)
          => Answered(p, TokenInvalid)

\* C10: getReset by an unauthenticated caller answers "invalid or expired"
\* for a token that no record holds when the directory is read.
C10_UnstoredTokenRejected ==
  \A p \in Procs :
    ( /\ Finished(p, "getReset")
      /\ Unauthenticated(p)
      /\ ~hist[p].infra
      /\ ~hist[p].held )
    => Answered(p, TokenInvalid)

\* the rejected token had been issued and redeemed before
C10_Witness ==
  \E p \in Procs :
    /\ Finished(p, "getReset")
    /\ Unauthenticated(p)
    /\ ~hist[p].infra
    /\ ~hist[p].held
    /\ hist[p].spent
    /\ Answered(p, TokenInvalid)

\* C11: postReset with valid password fields and a token that no record
\* holds is answered "invalid or expired" (403), as for an expired token,
\* and makes no write, no session and no sendMail call.
C11_UnknownTokenRedeemRejected ==
  \A p \in Procs :
    ( /\ Finished(p, "postReset")
      /\ hist[p].lookups = 1
      /\ ~hist[p].held
      /\ ~hist[p].infra )
    => /\ Answered(p, TokenInvalid)
       /\ hist[p].saves = 0
       /\ session[p] = ""
       /\ hist[p].mails = << >>

\* C12: when forgot has stored the token and sendMail reports an error, the
\* caller's response is a server error and not the acknowledgment.
C12_DispatchFailureReported ==
  \A p \in Procs :
    ( /\ Finished(p, "forgot")
      /\ hist[p].saves = 1
      /\ hist[p].mails # << >>
      /\ ~hist[p].mails[1].delivered )
    => /\ out[p] # << >>
       /\ Head(out[p]) # EmailSent(req[p].email)
       /\ Head(out[p]).via = "next" \/ Head(out[p]).status >= 500

\* C13: when postReset has stored the new password and sendMail reports an
\* error, the record keeps the change (the request makes no further write)
\* and the caller's response is not the plain "password changed" success.
C13_ConfirmationFailureReported ==
  \A p \in Procs :
    ( /\ Finished(p, "postReset")
      /\ hist[p].saves = 1
      /\ hist[p].mails # << >>
      /\ ~hist[p].mails[1].delivered )
    => /\ hist[p].cleared
       /\ out[p] # << >>
       /\ Head(out[p]) # PasswordChanged

\* C14: postReset with a password shorter than 4 characters, or with a
\* confirmation that differs from it, is answered with the validation
\* errors (400) and nothing else: no lookup, no write, no session, no mail.
C14_InvalidPasswordFailsFast ==
  \A p \in Procs :
    ( /\ kind[p] = "postReset"
      /\ \/ Len(req[p].password) < MinPasswordLen
         \/ req[p].confirmPassword # req[p].password )
    => /\ pc[p] = "done"
       /\ out[p] = << ValidationErrors >>
       /\ hist[p].lookups = 0
       /\ hist[p].saves = 0
       /\ hist[p].mails = << >>
       /\ session[p] = ""

\* a mismatched confirmation was refused while its token was pending
C14_Witness ==
  \E p \in Procs :
    /\ Finished(p, "postReset")
    /\ req[p].confirmPassword # req[p].password
    /\ out[p] = << ValidationErrors >>
    /\ \E e \in DOMAIN db :
         /\ db[e].passwordResetToken = req[p].token
         /\ db[e].password = InitialPassword

\* C15: when user.save reports an error in forgot or postReset, the request
\* ends with the error passed to next (a server error), having made no
\* write and no sendMail call and established no session.
C15_SaveFailureAborts ==
  \A p \in Procs :
    hist[p].saveErr
    => /\ pc[p] = "done"
       /\ out[p] # << >>
       /\ Head(out[p]).via = "next"
       /\ hist[p].saves = 0
       /\ hist[p].mails = << >>
       /\ session[p] = ""

\* a save failed in a forgot request and in a postReset request
C15_Witness ==
  \E p, q \in Procs :
    /\ kind[p] = "forgot" /\ hist[p].saveErr
    /\ kind[q] = "postReset" /\ hist[q].saveErr
    /\ Answered(p, NextErr("db error"))
    /\ Answered(q, NextErr("db error"))
    /\ \A e \in DOMAIN db :
         db[e].password = InitialPassword /\ db[e].passwordResetToken # NoToken

\* C16: no step of getReset changes a user record or a session: the
\* findOne callback leaves the directory and every session as they were,
\* whatever it answers, and the arrival of the request (which answers an
\* authenticated caller at once) leaves the directory as it was and the
\* request without a session.
C16_VerifyIsReadOnly ==
  [][ \A p \in Procs :
        /\ (pc[p] = "g_find" /\ pc'[p] # "g_find")
           => db' = db /\ session' = session
        /\ (kind'[p] = "getReset" /\ started' # started)
           => db' = db /\ session'[p] = "" ]_vars

\* getReset has answered "valid" to one request and refused another while
\* a token was pending
C16_Witness ==
  \E p, q \in Procs :
    /\ Finished(p, "getReset") /\ Answered(p, TokenValid)
    /\ Finished(q, "getReset")
    /\ Answered(q, TokenInvalid) \/ Answered(q, AlreadyLoggedIn)
    /\ \E e \in DOMAIN db : db[e].passwordResetToken = req[p].token

\* C17: a forgot request has made a sendMail call only after its save
\* succeeded, and the token in the mail is the token that save stored; a
\* postReset request has a session or has made a sendMail call only after
\* its save of the new password succeeded.
C17_SaveBeforeMailAndSession ==
  \A p \in Procs :
    /\ (kind[p] = "forgot" /\ hist[p].mails # << >>)
       => /\ hist[p].saves = 1 /\ ~hist[p].saveErr
          /\ hist[p].wrote # NoToken
          /\ \A i \in DOMAIN hist[p].mails : hist[p].mails[i].token = hist[p].wrote
    /\ (kind[p] = "postReset" /\ (session[p] # "" \/ hist[p].mails # << >>))
       => hist[p].saves = 1 /\ ~hist[p].saveErr /\ hist[p].cleared

\* a reset mail and a confirmation mail have been sent, the latter with a
\* session established
C17_Witness ==
  \E p, q \in Procs :
    /\ kind[p] = "forgot" /\ hist[p].mails # << >> /\ hist[p].saves = 1
    /\ kind[q] = "postReset" /\ hist[q].mails # << >> /\ hist[q].saves = 1
    /\ session[q] # ""

\* C18: when crypto.randomBytes reports an error (the only collaborator
\* error of forgot that precedes its lookup), the request ends with the
\* error passed to next (a server error), with no lookup, no write and no
\* sendMail call.
C18_EntropyFailureReported ==
  \A p \in Procs :
    ( /\ Finished(p, "forgot")
      /\ hist[p].infra
      /\ hist[p].lookups = 0 )
    => /\ out[p] # << >>
       /\ Head(out[p]).via = "next"
       /\ hist[p].saves = 0
       /\ hist[p].mails = << >>

\* C19: a forgot or postReset request makes at most one res.send / next
\* call.
C19_AtMostOneResponse ==
  \A p \in Procs :
    kind[p] \in {"forgot", "postReset"} => Len(out[p]) <= 1

\* C20: a password set by a successful postReset is not reverted by a
\* concurrent forgot: when the stored password is the one a postReset
\* request saved and answered with success, a save of forgot leaves it
\* stored.
C20_ForgotKeepsCredential ==
  [][ \A p \in Procs : \A q \in Procs : \A e \in Users :
        ( /\ kind[p] = "forgot"
          /\ hist'[p].saves = hist[p].saves + 1
          /\ RedeemSucceeded(q)
          /\ db[e].password = req[q].password )
        => db'[e].password = db[e].password ]_vars

====
